---- MODULE Spec2Model ----
(***************************************************************************)
(* USB isochronous transfer simulator (kcobain): an unthrottled producer   *)
(* thread and a paced consumer thread exchange microframes through an SPSC *)
(* byte ring buffer (miniaudio ma_rb) owned by audio_rb_controller.         *)
(*                                                                         *)
(* Each worker thread is modelled statement by statement: one action per   *)
(* atomic load, ring-buffer call, memcpy or fetch_add, so that every       *)
(* interleaving of the two loops and of the caller's start()/stop() is     *)
(* explored.                                                               *)
(***************************************************************************)
EXTENDS Integers, Naturals, Sequences, FiniteSets, TLC

VARIABLES
    \* audio_rb_controller; initResult is what the last initialize() returned
    \* ("none" before the first call, "success" for true, "failure" for false)
    initialized, buffer_size_bytes, initResult,
    \* whether the controller pointer handed to the orchestrator and to the
    \* workers is valid (FALSE: a null pointer)
    buffer_controller,
    \* usb_audio_orchestrator: whether its producer / consumer pointers are set
    producer, consumer,
    \* ma_rb (miniaudio ring buffer held by the controller)
    subbufferSizeInBytes, writeOffset, writeLoopFlag, readOffset, readLoopFlag, mem,
    \* usb_audio_producer
    frame_size, p_running, producer_thread, total_frames_produced, overrun_count,
    p_pc, p_result, p_bytesAcquired, writeAttempts,
    \* number of threads executing producerLoop / consumerLoop
    p_live, c_live,
    \* usb_audio_consumer
    c_running, consumer_thread, total_frames_consumed, underrun_count,
    c_pc, c_result, c_bytesAcquired, microframeCount,
    \* the thread that calls start()/stop()
    caller,
    \* history: frames committed by the producer, tick bodies completed,
    \* whether each worker was ever started
    committedFrames, ticksCompleted, p_everStarted, c_everStarted,
    \* history: the last call the caller completed (with its result), and whether each worker was
    \* started again after a stop
    lastCall, p_restarted, c_restarted,
    \* consumerLoop's clock: t_now is the last reading of the clock in
    \* microseconds (-1 when time is not followed), t0 the reading at loop
    \* entry, microframeStart and nextMicroframe the loop's locals, timingError
    \* the last timing error logged (-1: none yet)
    t_now, t0, microframeStart, nextMicroframe, timingError,
    \* history: acquire calls made by each worker thread after its run flag was
    \* cleared
    p_opsAfterStop, c_ticksAfterStop,
    \* the producer thread of a second orchestrator in the same process: the
    \* value of the static writeAttempts it has read and not yet written back
    \* (-1: none), and the number of write attempts it has made
    o_seen, o_attempts,
    \* the object whose destructor has been called, if any: "none", then
    \* "dtor_producer", "dtor_consumer" or "dtor_orchestrator" while the
    \* destructor runs, and "producer", "consumer" or "orchestrator" once it has
    \* completed
    destroyed

rbVars   == <<subbufferSizeInBytes, writeOffset, writeLoopFlag, readOffset, readLoopFlag, mem>>
ctlVars  == <<initialized, buffer_size_bytes, initResult>>
orchVars == <<buffer_controller, producer, consumer>>
prodVars == <<frame_size, p_running, producer_thread, total_frames_produced, overrun_count,
              p_pc, p_result, p_bytesAcquired, writeAttempts, p_live>>
consVars == <<c_running, consumer_thread, total_frames_consumed, underrun_count,
              c_pc, c_result, c_bytesAcquired, microframeCount, c_live>>
callHist == <<lastCall, p_restarted, c_restarted>>
histVars == <<committedFrames, ticksCompleted, p_everStarted, c_everStarted, callHist>>
timeVars == <<t_now, t0, microframeStart, nextMicroframe, timingError>>
stopHist == <<p_opsAfterStop, c_ticksAfterStop>>
otherVars == <<o_seen, o_attempts>>
dtorVars == <<destroyed>>
auxVars  == <<timeVars, stopHist, otherVars, dtorVars>>
\* what neither start() touches
startAux == <<t_now, nextMicroframe, timingError, otherVars, dtorVars>>
vars     == <<ctlVars, orchVars, rbVars, prodVars, consVars, caller, histVars, auxVars>>

----------------------------------------------------------------------------
(* Bounds of the exploration *)

\* write attempts explored per run (the static counter writeAttempts)
MaxWriteAttempts == 5
\* consumer tick bodies explored per run
MaxTicks == 4
\* consumer tick bodies explored per run when time is followed: enough to
\* reach the second logged microframe
MaxTimedTicks == 1001
\* how late sleep_until may return, in microseconds, and the largest lateness
\* followed
Jitters == { 0, 50, 300 }
MaxLate == 400
\* write attempts followed for the producer of a second orchestrator
MaxOtherAttempts == 2

\* capacities handed to audio_rb_controller::initialize and microframe sizes
\* handed to the usb_audio_orchestrator constructor
Configs == { <<768, 384>>, <<500, 384>>, <<768, 256>> }

\* arguments of audio_rb_controller::initialize on a fresh controller
Capacities == { 0, 500, 768 }
\* microframe sizes of the workers bound to a fresh controller
FrameSizes == { 384, 256 }

----------------------------------------------------------------------------
(* Program constants *)

\* result code of a ring-buffer call that succeeded
MA_SUCCESS == "MA_SUCCESS"
\* audioDataSize passed by the orchestrator to the producer
audioDataSize == 96
\* bytes the consumer requests on every tick
bytesToConsume == 384

\* std::chrono::microseconds(125)
microframePeriod == 125
\* if (microframeCount % 1000 == 0)
logEvery == 1000

Max(a, b) == IF a >= b THEN a ELSE b
Abs(a) == IF a >= 0 THEN a ELSE -a

Min(a, b) == IF a < b THEN a ELSE b

----------------------------------------------------------------------------
(* The payload of one microframe.  The audio samples are random; the byte  *)
(* at position j of the s-th generated frame is identified by the token    *)
(* AudioByte(s, j), the padding up to frame_size is zero.                  *)

AudioByte(s, j) == s * 1000 + j + 1

\* byte j of the frame: audio data up to min(audio_data_size, frame_size), then zeros
usbFrameByte(s, len, j) == IF j < Min(audioDataSize, len) THEN AudioByte(s, j) ELSE 0

usbFrame(s, len) == [j \in 0..(len - 1) |-> usbFrameByte(s, len, j)]

----------------------------------------------------------------------------
(* ma_rb: single-producer single-consumer byte ring buffer.  A cursor is  *)
(* a byte offset plus a loop flag that flips on every wrap; a grant is     *)
(* always one contiguous range and never crosses the end of the buffer.    *)

ma_rb_available_write ==
    IF writeLoopFlag = readLoopFlag
        THEN subbufferSizeInBytes - writeOffset
        ELSE readOffset - writeOffset

ma_rb_available_read ==
    IF readLoopFlag = writeLoopFlag
        THEN writeOffset - readOffset
        ELSE subbufferSizeInBytes - readOffset

\* bytes granted by ma_rb_acquire_write / ma_rb_acquire_read for a request
ma_rb_acquire_write(requested) == Min(requested, ma_rb_available_write)
ma_rb_acquire_read(requested)  == Min(requested, ma_rb_available_read)

\* committed but unread bytes
ma_rb_pointer_distance ==
    IF writeLoopFlag = readLoopFlag
        THEN writeOffset - readOffset
        ELSE writeOffset + (subbufferSizeInBytes - readOffset)

\* ma_rb_commit_write(bytes): advance the write cursor, wrapping at the end;
\* a commit past the end of the buffer is rejected and changes nothing
ma_rb_commit_write(bytes) ==
    LET new == writeOffset + bytes IN
    IF new > subbufferSizeInBytes
        THEN UNCHANGED <<writeOffset, writeLoopFlag>>
        ELSE IF new = subbufferSizeInBytes
            THEN writeOffset' = 0 /\ writeLoopFlag' = ~writeLoopFlag
            ELSE writeOffset' = new /\ UNCHANGED writeLoopFlag

ma_rb_commit_read(bytes) ==
    LET new == readOffset + bytes IN
    IF new > subbufferSizeInBytes
        THEN UNCHANGED <<readOffset, readLoopFlag>>
        ELSE IF new = subbufferSizeInBytes
            THEN readOffset' = 0 /\ readLoopFlag' = ~readLoopFlag
            ELSE readOffset' = new /\ UNCHANGED readLoopFlag

----------------------------------------------------------------------------
(* Initial state: a controller initialized with a capacity, and an        *)
(* orchestrator constructed on it with a microframe size; both workers     *)
(* exist and are stopped.                                                  *)

\* time is not followed
Untimed ==
    /\ t_now = -1 /\ t0 = -1 /\ microframeStart = -1 /\ nextMicroframe = -1
    /\ timingError = -1

\* the acquire calls after a stop are not counted
NoStopHist == p_opsAfterStop = -1 /\ c_ticksAfterStop = -1

\* no second orchestrator has touched the static counter
AuxInit == o_seen = -1 /\ o_attempts = 0 /\ destroyed = "none"

\* the history records the calls made, unless it starts as "untracked"
Recorded(call) == IF lastCall = "untracked" THEN lastCall ELSE call

Constructed(cfgs) ==
    \E cfg \in cfgs :
        /\ initialized = TRUE
        /\ buffer_size_bytes = cfg[1]
        /\ initResult = "success"
        /\ buffer_controller = TRUE
        /\ producer = TRUE /\ consumer = TRUE
        /\ p_live = 0 /\ c_live = 0
        /\ AuxInit
        /\ p_restarted = FALSE /\ c_restarted = FALSE
        /\ subbufferSizeInBytes = cfg[1]
        /\ writeOffset = 0 /\ writeLoopFlag = FALSE
        /\ readOffset = 0 /\ readLoopFlag = FALSE
        /\ mem = [i \in 0..(cfg[1] - 1) |-> 0]
        /\ frame_size = cfg[2]
        /\ p_running = FALSE /\ producer_thread = "none"
        /\ total_frames_produced = 0 /\ overrun_count = 0
        /\ p_pc = "idle" /\ p_result = MA_SUCCESS /\ p_bytesAcquired = 0
        /\ writeAttempts = 0
        /\ c_running = FALSE /\ consumer_thread = "none"
        /\ total_frames_consumed = 0 /\ underrun_count = 0
        /\ c_pc = "idle" /\ c_result = MA_SUCCESS /\ c_bytesAcquired = 0
        /\ microframeCount = 0
        /\ caller = "idle"
        /\ committedFrames = <<>>
        /\ ticksCompleted = 0
        /\ p_everStarted = FALSE /\ c_everStarted = FALSE

\* the data path alone: the calls made are not recorded
Init == Constructed(Configs) /\ Untimed /\ NoStopHist /\ lastCall = "untracked"

\* the same, with the calls recorded
InitTracked == Constructed(Configs) /\ Untimed /\ NoStopHist /\ lastCall = "none"

\* one configuration with the clock followed from time 0
InitTimed ==
    /\ Constructed({ <<768, 384>> }) /\ NoStopHist /\ lastCall = "untracked"
    /\ t_now = 0 /\ t0 = 0 /\ microframeStart = 0 /\ nextMicroframe = 0
    /\ timingError = -1

\* one configuration with the calls recorded, for the start/stop life cycle
InitLife == Constructed({ <<768, 384>> }) /\ Untimed /\ NoStopHist /\ lastCall = "none"

\* the data path with the acquire calls after a stop counted
InitStop ==
    /\ Constructed(Configs) /\ Untimed /\ lastCall = "untracked"
    /\ p_opsAfterStop = 0 /\ c_ticksAfterStop = 0

----------------------------------------------------------------------------
(* audio_rb_controller *)

\* a controller just constructed (or none, when ctl is FALSE), with a producer
\* and a consumer bound to it and an orchestrator constructed on it before it
\* was initialized (which therefore holds neither a producer nor a consumer)
FreshWith(ctl) ==
    \E f \in FrameSizes :
        /\ initialized = FALSE
        /\ buffer_size_bytes = 0
        /\ initResult = "none"
        /\ buffer_controller = ctl
        /\ producer = FALSE /\ consumer = FALSE
        /\ AuxInit /\ Untimed /\ NoStopHist
        /\ subbufferSizeInBytes = 0
        /\ writeOffset = 0 /\ writeLoopFlag = FALSE
        /\ readOffset = 0 /\ readLoopFlag = FALSE
        /\ mem = [i \in {} |-> 0]
        /\ frame_size = f
        /\ p_running = FALSE /\ producer_thread = "none"
        /\ total_frames_produced = 0 /\ overrun_count = 0
        /\ p_pc = "idle" /\ p_result = MA_SUCCESS /\ p_bytesAcquired = 0
        /\ writeAttempts = 0
        /\ c_running = FALSE /\ consumer_thread = "none"
        /\ total_frames_consumed = 0 /\ underrun_count = 0
        /\ c_pc = "idle" /\ c_result = MA_SUCCESS /\ c_bytesAcquired = 0
        /\ microframeCount = 0
        /\ p_live = 0 /\ c_live = 0
        /\ caller = "idle"
        /\ committedFrames = <<>>
        /\ ticksCompleted = 0
        /\ p_everStarted = FALSE /\ c_everStarted = FALSE
        /\ lastCall = "none" /\ p_restarted = FALSE /\ c_restarted = FALSE

InitFresh == FreshWith(TRUE)

\* a producer, a consumer and an orchestrator constructed with a null
\* controller pointer
InitNull == FreshWith(FALSE)

\* ma_rb_init(size, NULL, NULL, &ring_buffer) succeeds for a non-zero size
\* whose allocation succeeds
ma_rb_init_ok(size, allocOk) == size > 0 /\ allocOk

\* audio_rb_controller::getRingBuffer
getRingBuffer == IF initialized THEN "ring_buffer" ELSE "nullptr"

\* mutant: no `if (initialized) return true` guard
Initialize_NoGuard(bufferSizeBytes, allocOk) ==
    /\ caller = "idle"
    /\ buffer_size_bytes' = bufferSizeBytes
    /\ IF ma_rb_init_ok(bufferSizeBytes, allocOk)
          THEN /\ subbufferSizeInBytes' = bufferSizeBytes
               /\ writeOffset' = 0 /\ writeLoopFlag' = FALSE
               /\ readOffset' = 0 /\ readLoopFlag' = FALSE
               /\ mem' = [i \in 0..(bufferSizeBytes - 1) |-> 0]
               /\ initialized' = TRUE
               /\ initResult' = "success"
               /\ lastCall' = Recorded("initialize")
          ELSE /\ initResult' = "failure"
               /\ lastCall' = Recorded("initialize_failed")
               /\ UNCHANGED <<initialized, rbVars>>
    /\ UNCHANGED <<orchVars, auxVars, prodVars, consVars, caller, committedFrames, ticksCompleted,
                   p_everStarted, c_everStarted, p_restarted, c_restarted>>

\* mutant: the size is stored only after ma_rb_init succeeded, rounded down to
\* whole frames
Initialize_RoundsSize(bufferSizeBytes, allocOk) ==
    /\ caller = "idle"
    /\ IF initialized
          THEN /\ initResult' = "success"
               /\ lastCall' = Recorded("initialize_noop")
               /\ UNCHANGED <<initialized, buffer_size_bytes, rbVars>>
          ELSE IF ma_rb_init_ok(bufferSizeBytes, allocOk)
              THEN /\ buffer_size_bytes' = bufferSizeBytes - bytesToConsume
                   /\ subbufferSizeInBytes' = bufferSizeBytes
                   /\ writeOffset' = 0 /\ writeLoopFlag' = FALSE
                   /\ readOffset' = 0 /\ readLoopFlag' = FALSE
                   /\ mem' = [i \in 0..(bufferSizeBytes - 1) |-> 0]
                   /\ initialized' = TRUE
                   /\ initResult' = "success"
                   /\ lastCall' = Recorded("initialize")
              ELSE /\ initResult' = "failure"
                   /\ lastCall' = Recorded("initialize_failed")
                   /\ UNCHANGED <<initialized, buffer_size_bytes, rbVars>>
    /\ UNCHANGED <<orchVars, auxVars, prodVars, consVars, caller, committedFrames, ticksCompleted,
                   p_everStarted, c_everStarted, p_restarted, c_restarted>>

\* mutant: `initialized = true` is set before the result of ma_rb_init is tested
Initialize_FlagBeforeCheck(bufferSizeBytes, allocOk) ==
    /\ caller = "idle"
    /\ IF initialized
          THEN /\ initResult' = "success"
               /\ lastCall' = Recorded("initialize_noop")
               /\ UNCHANGED <<initialized, buffer_size_bytes, rbVars>>
          ELSE /\ buffer_size_bytes' = bufferSizeBytes
               /\ initialized' = TRUE
               /\ IF ma_rb_init_ok(bufferSizeBytes, allocOk)
                     THEN /\ subbufferSizeInBytes' = bufferSizeBytes
                          /\ writeOffset' = 0 /\ writeLoopFlag' = FALSE
                          /\ readOffset' = 0 /\ readLoopFlag' = FALSE
                          /\ mem' = [i \in 0..(bufferSizeBytes - 1) |-> 0]
                          /\ initResult' = "success"
                          /\ lastCall' = Recorded("initialize")
                     ELSE /\ initResult' = "failure"
                          /\ lastCall' = Recorded("initialize_failed")
                          /\ UNCHANGED rbVars
    /\ UNCHANGED <<orchVars, auxVars, prodVars, consVars, caller, committedFrames, ticksCompleted,
                   p_everStarted, c_everStarted, p_restarted, c_restarted>>

\* audio_rb_controller::initialize(bufferSizeBytes); allocOk is whether the
\* allocation inside ma_rb_init succeeds
Initialize(bufferSizeBytes, allocOk) ==
    /\ caller = "idle"
    /\ IF initialized
          THEN /\ initResult' = "success"
               /\ lastCall' = Recorded("initialize_noop")
               /\ UNCHANGED <<initialized, buffer_size_bytes, rbVars>>
          ELSE /\ buffer_size_bytes' = bufferSizeBytes
               /\ IF ma_rb_init_ok(bufferSizeBytes, allocOk)
                     THEN /\ subbufferSizeInBytes' = bufferSizeBytes
                          /\ writeOffset' = 0 /\ writeLoopFlag' = FALSE
                          /\ readOffset' = 0 /\ readLoopFlag' = FALSE
                          /\ mem' = [i \in 0..(bufferSizeBytes - 1) |-> 0]
                          /\ initialized' = TRUE
                          /\ initResult' = "success"
                          /\ lastCall' = Recorded("initialize")
                     ELSE /\ initResult' = "failure"
                          /\ lastCall' = Recorded("initialize_failed")
                          /\ UNCHANGED <<initialized, rbVars>>
    /\ UNCHANGED <<orchVars, auxVars, prodVars, consVars, caller, committedFrames, ticksCompleted,
                   p_everStarted, c_everStarted, p_restarted, c_restarted>>

\* the caller calls initialize with some capacity
InitializeCall == buffer_controller /\ \E cap \in Capacities, allocOk \in BOOLEAN : Initialize(cap, allocOk)

----------------------------------------------------------------------------
(* the lifetime of the objects *)

\* the object exists: its destructor has not been called.  The orchestrator
\* owns its producer and its consumer, which end with it.
ProducerAlive == destroyed \notin {"dtor_producer", "producer", "dtor_orchestrator", "orchestrator"}
ConsumerAlive == destroyed \notin {"dtor_consumer", "consumer", "dtor_orchestrator", "orchestrator"}
OrchestratorAlive == destroyed = "none"

----------------------------------------------------------------------------
(* the clock *)

\* whether this behaviour follows time
Timed == t_now >= 0

\* std::chrono::high_resolution_clock::now() read without waiting
Now == t_now

\* tick bodies explored
TickBound == IF Timed THEN MaxTimedTicks ELSE MaxTicks

----------------------------------------------------------------------------
(* usb_audio_producer *)

\* mutant: start() without the `if (running.load()) return` guard
ProducerStartBody_NoRunningGuard ==
    IF ~buffer_controller \/ ~initialized
        THEN UNCHANGED <<p_running, producer_thread, p_pc, p_live, p_everStarted, p_restarted,
                        p_opsAfterStop>>
        ELSE /\ p_running' = TRUE
             /\ producer_thread' = "running"
             /\ p_pc' = "check"
             /\ p_live' = p_live + 1
             /\ p_everStarted' = TRUE
             /\ p_restarted' = (p_restarted \/ (p_everStarted /\ lastCall # "untracked"))
             /\ p_opsAfterStop' = Min(p_opsAfterStop, 0)

\* mutant: start() without the check of the controller
ProducerStartBody_NoControllerGuard ==
    IF p_running
        THEN UNCHANGED <<p_running, producer_thread, p_pc, p_live, p_everStarted, p_restarted,
                        p_opsAfterStop>>
        ELSE /\ p_running' = TRUE
             /\ producer_thread' = "running"
             /\ p_pc' = "check"
             /\ p_live' = p_live + 1
             /\ p_everStarted' = TRUE
             /\ p_restarted' = (p_restarted \/ (p_everStarted /\ lastCall # "untracked"))
             /\ p_opsAfterStop' = Min(p_opsAfterStop, 0)

\* the body of usb_audio_producer::start: returns at once when already running
\* or when the controller is missing or not initialized, else sets the run flag and spawns
\* the worker thread
ProducerStartBody ==
    IF p_running \/ ~buffer_controller \/ ~initialized
        THEN UNCHANGED <<p_running, producer_thread, p_pc, p_live, p_everStarted, p_restarted,
                        p_opsAfterStop>>
        ELSE /\ p_running' = TRUE
             /\ producer_thread' = "running"
             /\ p_pc' = "check"
             /\ p_live' = p_live + 1
             /\ p_everStarted' = TRUE
             /\ p_restarted' = (p_restarted \/ (p_everStarted /\ lastCall # "untracked"))
             /\ p_opsAfterStop' = Min(p_opsAfterStop, 0)

\* usb_audio_producer::start called on the worker
ProducerStart ==
    /\ caller = "idle" /\ ProducerAlive
    /\ ProducerStartBody
    /\ lastCall' = Recorded(IF p_running THEN "p_start_noop"
                            ELSE IF ~buffer_controller \/ ~initialized
                                 THEN "p_start_refused" ELSE "p_start")
    /\ UNCHANGED <<ctlVars, orchVars, startAux, t0, microframeStart, c_ticksAfterStop, rbVars, consVars, caller, frame_size, total_frames_produced,
                   overrun_count, p_result, p_bytesAcquired, writeAttempts,
                   committedFrames, ticksCompleted, c_everStarted, c_restarted>>

\* usb_audio_producer::stop called on the worker, up to the join; a no-op when
\* the worker is not running
ProducerStop ==
    /\ caller = "idle"
    /\ IF p_running
          THEN /\ p_running' = FALSE
               /\ caller' = IF producer_thread # "none" THEN "p_join" ELSE "idle"
               /\ UNCHANGED lastCall
          ELSE /\ lastCall' = Recorded("p_stop_noop")
               /\ UNCHANGED <<p_running, caller>>
    /\ UNCHANGED <<ctlVars, orchVars, auxVars, rbVars, consVars, committedFrames, ticksCompleted,
                   p_everStarted, c_everStarted, p_restarted, c_restarted, frame_size,
                   producer_thread, total_frames_produced, overrun_count, p_pc, p_result,
                   p_bytesAcquired, writeAttempts, p_live>>

\* mutant: stop() does not wait for the worker thread
ProducerJoined_NoWait == TRUE

\* producer_thread.join() returns once producerLoop has returned
ProducerJoined == producer_thread = "exited"

ProducerJoin ==
    /\ caller = "p_join"
    /\ ProducerJoined
    /\ producer_thread' = "none"
    /\ caller' = "idle"
    /\ lastCall' = Recorded("p_stop")
    /\ UNCHANGED <<ctlVars, orchVars, auxVars, rbVars, consVars, committedFrames, ticksCompleted,
                   p_everStarted, c_everStarted, p_restarted, c_restarted, frame_size,
                   total_frames_produced, overrun_count, p_running, p_pc, p_result,
                   p_bytesAcquired, writeAttempts, p_live>>

\* mutant: the loop never looks at the run flag
ProducerLoopCondition_Forever == TRUE

\* the loop condition of producerLoop, running.load()
ProducerLoopCondition == p_running

\* while (running.load()); the exploration stops a running loop here once
\* MaxWriteAttempts attempts were made, and an exit is never held back
ProducerCheck ==
    /\ p_pc = "check"
    /\ IF ProducerLoopCondition
          THEN /\ writeAttempts < MaxWriteAttempts
               /\ p_pc' = "acquire" /\ UNCHANGED <<producer_thread, p_live>>
          ELSE p_pc' = "idle" /\ producer_thread' = "exited" /\ p_live' = p_live - 1
    /\ UNCHANGED <<ctlVars, orchVars, auxVars, rbVars, consVars, caller, histVars, frame_size, p_running,
                   total_frames_produced, overrun_count, p_result, p_bytesAcquired,
                   writeAttempts>>

\* the payload is built, then ma_rb_acquire_write(ring_buffer, &bytesAcquired, ..)
\* with bytesAcquired = frame_size; writeAttempts++
ProducerAcquire ==
    /\ p_pc = "acquire"
    /\ p_bytesAcquired' = ma_rb_acquire_write(frame_size)
    /\ p_result' = MA_SUCCESS
    /\ writeAttempts' = writeAttempts + 1
    /\ p_opsAfterStop' = IF ~p_running /\ p_opsAfterStop >= 0
                             THEN p_opsAfterStop + 1 ELSE p_opsAfterStop
    /\ p_pc' = "branch"
    /\ UNCHANGED <<ctlVars, orchVars, timeVars, c_ticksAfterStop, otherVars, dtorVars, rbVars, consVars, caller, histVars, frame_size, p_running,
                   producer_thread, total_frames_produced, overrun_count, p_live>>

\* if (result == MA_SUCCESS && bytesAcquired > 0)
ProducerAccepts == p_result = MA_SUCCESS /\ p_bytesAcquired > 0

\* else if (result != MA_SUCCESS)
ProducerOverrun == p_result # MA_SUCCESS

\* mutant: the memcpy copies the whole frame whatever was granted
ProducerCopyBytes_WholeFrame == frame_size

\* memcpy(writeBuffer, usbFrame.data(), bytesAcquired)
ProducerCopyBytes == p_bytesAcquired

\* mutant: the commit advances by the frame size whatever was granted
ProducerCommitBytes_WholeFrame == frame_size

\* mutant: only the audio payload at the head of the frame is committed
ProducerCommitBytes_Audio == Min(p_bytesAcquired, audioDataSize)

\* ma_rb_commit_write(ring_buffer, bytesAcquired)
ProducerCommitBytes == p_bytesAcquired

\* the branch taken after the acquire
ProducerBranch ==
    /\ p_pc = "branch"
    /\ IF ProducerAccepts
          THEN p_pc' = "copy" /\ UNCHANGED overrun_count
          ELSE IF ProducerOverrun
              THEN /\ overrun_count' = overrun_count + 1
                   /\ p_pc' = "check"
              ELSE p_pc' = "check" /\ UNCHANGED overrun_count
    /\ UNCHANGED <<ctlVars, orchVars, auxVars, rbVars, consVars, caller, histVars, frame_size, p_running,
                   producer_thread, total_frames_produced, p_result, p_bytesAcquired,
                   writeAttempts, p_live>>

\* the memcpy stores into [writeOffset, writeOffset + bytes), bytes of the
\* buffer only (what lies past the allocation is not part of the model)
InCopyRange(i) == i >= writeOffset /\ i < writeOffset + ProducerCopyBytes

ProducerCopy ==
    /\ p_pc = "copy"
    /\ mem' = [i \in DOMAIN mem |->
                 IF InCopyRange(i)
                     THEN usbFrameByte(writeAttempts, frame_size, i - writeOffset)
                     ELSE mem[i]]
    /\ p_pc' = "commit"
    /\ UNCHANGED <<ctlVars, orchVars, auxVars, subbufferSizeInBytes, writeOffset, writeLoopFlag, readOffset,
                   readLoopFlag, consVars, caller, histVars, frame_size, p_running,
                   producer_thread, total_frames_produced, overrun_count, p_result,
                   p_bytesAcquired, writeAttempts, p_live>>

ProducerCommit ==
    /\ p_pc = "commit"
    /\ ma_rb_commit_write(ProducerCommitBytes)
    /\ committedFrames' = Append(committedFrames, <<writeAttempts, ProducerCommitBytes>>)
    /\ p_pc' = "count"
    /\ UNCHANGED <<ctlVars, orchVars, auxVars, subbufferSizeInBytes, readOffset, readLoopFlag, mem, consVars,
                   caller, ticksCompleted, p_everStarted, c_everStarted, frame_size,
                   p_running, producer_thread, total_frames_produced, overrun_count,
                   p_result, p_bytesAcquired, writeAttempts, p_live, callHist>>

\* total_frames_produced.fetch_add(1)
ProducerCount ==
    /\ p_pc = "count"
    /\ total_frames_produced' = total_frames_produced + 1
    /\ p_pc' = "check"
    /\ UNCHANGED <<ctlVars, orchVars, auxVars, rbVars, consVars, caller, histVars, frame_size, p_running,
                   producer_thread, overrun_count, p_result, p_bytesAcquired, writeAttempts, p_live>>

----------------------------------------------------------------------------
(* usb_audio_consumer *)

\* mutant: start() without the `if (running.load()) return` guard
ConsumerStartBody_NoRunningGuard ==
    IF ~buffer_controller \/ ~initialized
        THEN UNCHANGED <<c_running, consumer_thread, c_pc, c_live, microframeCount, c_everStarted,
                        c_restarted, c_ticksAfterStop, t0, microframeStart>>
        ELSE /\ c_running' = TRUE
             /\ consumer_thread' = "running"
             /\ c_pc' = "check"
             /\ c_live' = c_live + 1
             /\ microframeCount' = 0
             /\ c_everStarted' = TRUE
             /\ c_restarted' = (c_restarted \/ (c_everStarted /\ lastCall # "untracked"))
             /\ c_ticksAfterStop' = Min(c_ticksAfterStop, 0)
             /\ t0' = Now /\ microframeStart' = Now

\* the body of usb_audio_consumer::start: returns at once when already running
\* or when the controller is missing or not initialized, else sets the run flag and spawns
\* the worker thread
ConsumerStartBody ==
    IF c_running \/ ~buffer_controller \/ ~initialized
        THEN UNCHANGED <<c_running, consumer_thread, c_pc, c_live, microframeCount, c_everStarted,
                        c_restarted, c_ticksAfterStop, t0, microframeStart>>
        ELSE /\ c_running' = TRUE
             /\ consumer_thread' = "running"
             /\ c_pc' = "check"
             /\ c_live' = c_live + 1
             /\ microframeCount' = 0
             /\ c_everStarted' = TRUE
             /\ c_restarted' = (c_restarted \/ (c_everStarted /\ lastCall # "untracked"))
             /\ c_ticksAfterStop' = Min(c_ticksAfterStop, 0)
             /\ t0' = Now /\ microframeStart' = Now

\* usb_audio_consumer::start called on the worker
ConsumerStart ==
    /\ caller = "idle" /\ ConsumerAlive
    /\ ConsumerStartBody
    /\ lastCall' = Recorded(IF c_running THEN "c_start_noop"
                            ELSE IF ~buffer_controller \/ ~initialized
                                 THEN "c_start_refused" ELSE "c_start")
    /\ UNCHANGED <<ctlVars, orchVars, startAux, p_opsAfterStop, rbVars, prodVars, caller, total_frames_consumed,
                   underrun_count, c_result, c_bytesAcquired,
                   committedFrames, ticksCompleted, p_everStarted, p_restarted>>

\* usb_audio_consumer::stop called on the worker, up to the join; a no-op when
\* the worker is not running
ConsumerStop ==
    /\ caller = "idle"
    /\ IF c_running
          THEN /\ c_running' = FALSE
               /\ caller' = IF consumer_thread # "none" THEN "c_join" ELSE "idle"
               /\ UNCHANGED lastCall
          ELSE /\ lastCall' = Recorded("c_stop_noop")
               /\ UNCHANGED <<c_running, caller>>
    /\ UNCHANGED <<ctlVars, orchVars, auxVars, rbVars, prodVars, committedFrames, ticksCompleted,
                   p_everStarted, c_everStarted, p_restarted, c_restarted, consumer_thread,
                   total_frames_consumed, underrun_count, c_pc, c_result, c_bytesAcquired,
                   microframeCount, c_live>>

\* mutant: stop() does not wait for the worker thread
ConsumerJoined_NoWait == TRUE

\* consumer_thread.join() returns once consumerLoop has returned
ConsumerJoined == consumer_thread = "exited"

ConsumerJoin ==
    /\ caller = "c_join"
    /\ ConsumerJoined
    /\ consumer_thread' = "none"
    /\ caller' = "idle"
    /\ lastCall' = Recorded("c_stop")
    /\ UNCHANGED <<ctlVars, orchVars, auxVars, rbVars, prodVars, committedFrames, ticksCompleted,
                   p_everStarted, c_everStarted, p_restarted, c_restarted,
                   total_frames_consumed, underrun_count, c_running, c_pc, c_result, c_bytesAcquired,
                   microframeCount, c_live>>

\* mutant: the loop looks at the run flag on every second iteration only
ConsumerLoopCondition_EveryOther == c_running \/ microframeCount % 2 = 1

\* the loop condition of consumerLoop, running.load()
ConsumerLoopCondition == c_running

\* while (running.load()); the exploration stops a running loop here once
\* TickBound tick bodies were completed, and an exit is never held back
ConsumerCheck ==
    /\ c_pc = "check"
    /\ IF ConsumerLoopCondition
          THEN /\ ticksCompleted < TickBound
               /\ c_pc' = "acquire" /\ UNCHANGED <<consumer_thread, c_live>>
          ELSE c_pc' = "idle" /\ consumer_thread' = "exited" /\ c_live' = c_live - 1
    /\ UNCHANGED <<ctlVars, orchVars, auxVars, rbVars, prodVars, caller, histVars, c_running,
                   total_frames_consumed, underrun_count, c_result, c_bytesAcquired,
                   microframeCount>>

\* auto nextMicroframe = microframeStart + std::chrono::microseconds(125)
TargetWakeTime == microframeStart + microframePeriod

\* the timing error logged: elapsed = now - microframeStart, expectedTime =
\* microframeCount * 125, and the absolute value of their difference
TimingErrorLogged(now) == Abs((now - microframeStart) - microframeCount * microframePeriod)

\* nextMicroframe = microframeStart + 125us; sleep_until(nextMicroframe), which
\* returns at the target or later; then
\* ma_rb_acquire_read(ring_buffer, &bytesAcquired, ..) with bytesAcquired = 384,
\* and on every 1000th microframe the timing error is computed and logged
ConsumerAcquire ==
    /\ c_pc = "acquire"
    /\ IF Timed
          THEN /\ nextMicroframe' = TargetWakeTime
               /\ \E late \in Jitters :
                      /\ t_now' = Max(t_now, TargetWakeTime) + late
                      /\ t_now' - TargetWakeTime <= MaxLate
               /\ timingError' = IF microframeCount % logEvery = 0
                                     THEN TimingErrorLogged(t_now') ELSE timingError
          ELSE UNCHANGED <<nextMicroframe, t_now, timingError>>
    /\ c_bytesAcquired' = ma_rb_acquire_read(bytesToConsume)
    /\ c_result' = MA_SUCCESS
    /\ c_ticksAfterStop' = IF ~c_running /\ c_ticksAfterStop >= 0
                               THEN c_ticksAfterStop + 1 ELSE c_ticksAfterStop
    /\ c_pc' = "branch"
    /\ UNCHANGED <<ctlVars, orchVars, t0, microframeStart, p_opsAfterStop, otherVars, dtorVars, rbVars, prodVars, caller, histVars, c_running, consumer_thread,
                   total_frames_consumed, underrun_count, microframeCount, c_live>>

\* mutant: the size of the grant is not checked
ConsumerAccepts_AnySize == c_result = MA_SUCCESS

\* mutant: any non-empty grant is accepted, as on the producer side
ConsumerAccepts_NonEmpty == c_result = MA_SUCCESS /\ c_bytesAcquired > 0

\* if (result == MA_SUCCESS && bytesAcquired == 384)
ConsumerAccepts == c_result = MA_SUCCESS /\ c_bytesAcquired = 384

\* ma_rb_commit_read(ring_buffer, bytesAcquired)
ConsumerCommitBytes == c_bytesAcquired

ConsumerBranch ==
    /\ c_pc = "branch"
    /\ IF ConsumerAccepts
          THEN c_pc' = "commit" /\ UNCHANGED underrun_count
          ELSE /\ underrun_count' = underrun_count + 1
               /\ c_pc' = "advance"
    /\ UNCHANGED <<ctlVars, orchVars, auxVars, rbVars, prodVars, caller, histVars, c_running, consumer_thread,
                   total_frames_consumed, c_result, c_bytesAcquired, microframeCount, c_live>>

ConsumerCommit ==
    /\ c_pc = "commit"
    /\ ma_rb_commit_read(ConsumerCommitBytes)
    /\ c_pc' = "count"
    /\ UNCHANGED <<ctlVars, orchVars, auxVars, subbufferSizeInBytes, writeOffset, writeLoopFlag, mem, prodVars,
                   caller, histVars, c_running, consumer_thread, total_frames_consumed,
                   underrun_count, c_result, c_bytesAcquired, microframeCount, c_live>>

\* total_frames_consumed.fetch_add(1)
ConsumerCount ==
    /\ c_pc = "count"
    /\ total_frames_consumed' = total_frames_consumed + 1
    /\ c_pc' = "advance"
    /\ UNCHANGED <<ctlVars, orchVars, auxVars, rbVars, prodVars, caller, histVars, c_running, consumer_thread,
                   underrun_count, c_result, c_bytesAcquired, microframeCount, c_live>>

\* microframeStart = nextMicroframe; microframeCount++
ConsumerAdvance ==
    /\ c_pc = "advance"
    /\ microframeStart' = IF Timed THEN nextMicroframe ELSE microframeStart
    /\ microframeCount' = microframeCount + 1
    /\ ticksCompleted' = ticksCompleted + 1
    /\ c_pc' = "check"
    /\ UNCHANGED <<ctlVars, orchVars, t_now, t0, nextMicroframe, timingError, stopHist,
                   otherVars, dtorVars, rbVars, prodVars, caller, c_running, consumer_thread,
                   total_frames_consumed, underrun_count, c_result, c_bytesAcquired,
                   committedFrames, p_everStarted, c_everStarted, c_live, callHist>>


----------------------------------------------------------------------------
(* usb_audio_orchestrator *)

\* what the caller's own steps leave alone in both workers
workerData == <<frame_size, total_frames_produced, overrun_count, p_result, p_bytesAcquired,
                writeAttempts, total_frames_consumed, underrun_count, c_result,
                c_bytesAcquired>>
producerLife == <<p_running, producer_thread, p_pc, p_live, p_everStarted, p_restarted,
                  p_opsAfterStop>>
consumerLife == <<c_running, consumer_thread, c_pc, c_live, microframeCount, c_everStarted,
                  c_restarted, c_ticksAfterStop, t0, microframeStart>>

\* mutant: startStreaming starts the producer first
StartStreamingFirst_Producer == "producer"

\* startStreaming: consumer->start() comes first, producer->start() second
StartStreamingFirst == "consumer"

\* mutant: startStreaming looks at the controller, not at its two workers
startStreamingRefused_ChecksController == ~buffer_controller \/ ~initialized

\* if (!producer || !consumer) return, at the top of startStreaming
startStreamingRefused == ~producer \/ ~consumer

\* startStreaming up to the return of the first start(); returns at once when
\* the orchestrator holds no producer or no consumer
StartStreamingBegin ==
    /\ caller = "idle" /\ OrchestratorAlive
    /\ IF startStreamingRefused
          THEN /\ lastCall' = Recorded("startStreaming_refused")
               /\ UNCHANGED <<caller, producerLife, consumerLife>>
          ELSE /\ caller' = "ss_second"
               /\ IF StartStreamingFirst = "consumer"
                     THEN ConsumerStartBody /\ UNCHANGED producerLife
                     ELSE ProducerStartBody /\ UNCHANGED consumerLife
               /\ UNCHANGED lastCall
    /\ UNCHANGED <<ctlVars, orchVars, startAux, rbVars, workerData, committedFrames, ticksCompleted>>

\* the second start() of startStreaming, and its return
StartStreamingEnd ==
    /\ caller = "ss_second"
    /\ IF StartStreamingFirst = "consumer"
          THEN ProducerStartBody /\ UNCHANGED consumerLife
          ELSE ConsumerStartBody /\ UNCHANGED producerLife
    /\ caller' = "idle"
    /\ lastCall' = Recorded("startStreaming")
    /\ UNCHANGED <<ctlVars, orchVars, startAux, rbVars, workerData, committedFrames, ticksCompleted>>

\* stopStreaming: `if (producer) producer->stop()` up to the join
StopStreamingBegin ==
    /\ caller = "idle"
    /\ IF producer /\ p_running
          THEN p_running' = FALSE /\ caller' = "st_p_join"
          ELSE UNCHANGED p_running /\ caller' = "st_consumer_noop"
    /\ UNCHANGED <<ctlVars, orchVars, auxVars, rbVars, workerData, consumerLife, producer_thread, p_pc,
                   p_live, p_everStarted, p_restarted, lastCall, committedFrames,
                   ticksCompleted>>

\* the join inside producer->stop()
StopStreamingProducerJoin ==
    /\ caller = "st_p_join"
    /\ ProducerJoined
    /\ producer_thread' = "none"
    /\ caller' = "st_consumer"
    /\ UNCHANGED <<ctlVars, orchVars, auxVars, rbVars, workerData, consumerLife, p_running, p_pc,
                   p_live, p_everStarted, p_restarted, lastCall, committedFrames,
                   ticksCompleted>>

\* stopStreaming: `if (consumer) consumer->stop()` up to the join; when the
\* consumer is not running stopStreaming returns here
StopStreamingConsumer ==
    /\ caller \in {"st_consumer", "st_consumer_noop"}
    /\ IF consumer /\ c_running
          THEN c_running' = FALSE /\ caller' = "st_c_join" /\ UNCHANGED lastCall
          ELSE /\ UNCHANGED c_running
               /\ caller' = "idle"
               /\ lastCall' = Recorded(IF caller = "st_consumer_noop"
                                           THEN "stopStreaming_noop" ELSE "stopStreaming")
    /\ UNCHANGED <<ctlVars, orchVars, auxVars, rbVars, workerData, producerLife, consumer_thread, c_pc,
                   c_live, microframeCount, c_everStarted, c_restarted, committedFrames,
                   ticksCompleted>>

\* the join inside consumer->stop(), and the return of stopStreaming
StopStreamingConsumerJoin ==
    /\ caller = "st_c_join"
    /\ ConsumerJoined
    /\ consumer_thread' = "none"
    /\ caller' = "idle"
    /\ lastCall' = Recorded("stopStreaming")
    /\ UNCHANGED <<ctlVars, orchVars, auxVars, rbVars, workerData, producerLife, c_running, c_pc,
                   c_live, microframeCount, c_everStarted, c_restarted, committedFrames,
                   ticksCompleted>>

\* mutant: isStreaming requires both workers to run
isStreaming_Both == (producer /\ p_running) /\ (consumer /\ c_running)

\* usb_audio_orchestrator::isStreaming
isStreaming == (producer /\ p_running) \/ (consumer /\ c_running)

\* usb_audio_orchestrator::isStreaming reads the two atomic run flags, so it can
\* be called from any thread, also while startStreaming() or stopStreaming() is
\* in progress; the value returned is recorded with the call.  The two reads
\* are one step: the producer's flag is read first and decides alone when it is
\* set, and the consumer's flag is set whenever the producer's is, so the
\* outcome of the two reads is the value of the expression at one instant of
\* the call.
IsStreamingCall ==
    /\ lastCall' = Recorded(IF isStreaming THEN "isStreaming_true" ELSE "isStreaming_false")
    /\ UNCHANGED <<ctlVars, orchVars, auxVars, rbVars, workerData, producerLife, consumerLife,
                   caller, committedFrames, ticksCompleted>>

\* mutant: the underrun rate is computed without the `produced > 0` test
underrunRateComputed_NoGuard == producer /\ consumer

\* if (producer && consumer) { ... if (produced > 0) { underrun_rate =
\* (double)getUnderrunCount() / produced * 100.0
underrunRateComputed == producer /\ consumer /\ total_frames_produced > 0

\* if (producer && consumer) { ... if (consumed > 0) { overrun_rate =
\* (double)getOverrunCount() / consumed * 100.0
overrunRateComputed == producer /\ consumer /\ total_frames_consumed > 0

\* what printStatistics logs besides the counters: "_u" for the underrun rate,
\* "_o" for the overrun rate
printStatisticsLogged ==
    IF underrunRateComputed /\ overrunRateComputed THEN "printStatistics_uo"
    ELSE IF underrunRateComputed THEN "printStatistics_u"
    ELSE IF overrunRateComputed THEN "printStatistics_o"
    ELSE "printStatistics"

\* mutant: printStatistics reads the counters and clears them
PrintStatistics_Reset ==
    /\ lastCall' = Recorded(printStatisticsLogged)
    /\ total_frames_produced' = 0 /\ overrun_count' = 0
    /\ total_frames_consumed' = 0 /\ underrun_count' = 0
    /\ UNCHANGED <<ctlVars, orchVars, auxVars, rbVars, frame_size, p_result, p_bytesAcquired,
                   writeAttempts, c_result, c_bytesAcquired, producerLife, consumerLife,
                   caller, committedFrames, ticksCompleted>>

\* usb_audio_orchestrator::printStatistics: loads the four counters, and
\* computes each rate when its divisor is positive; like isStreaming it can be
\* called from any thread at any time
PrintStatistics ==
    /\ lastCall' = Recorded(printStatisticsLogged)
    /\ UNCHANGED <<ctlVars, orchVars, auxVars, rbVars, workerData, producerLife, consumerLife, caller,
                   committedFrames, ticksCompleted>>

\* mutant: getTotalFramesProduced implemented as exchange(0)
GetterCall_Exchange ==
    /\ lastCall' = Recorded("getter")
    /\ total_frames_produced' = 0
    /\ UNCHANGED <<ctlVars, orchVars, auxVars, rbVars, frame_size, overrun_count, p_result,
                   p_bytesAcquired, writeAttempts, total_frames_consumed, underrun_count,
                   c_result, c_bytesAcquired, producerLife, consumerLife, caller,
                   committedFrames, ticksCompleted>>

\* getTotalFramesProduced, getOverrunCount, getTotalFramesConsumed,
\* getUnderrunCount or isRunning of either worker, called from any thread at
\* any time: each is a single atomic load
GetterCall ==
    /\ lastCall' = Recorded("getter")
    /\ UNCHANGED <<ctlVars, orchVars, auxVars, rbVars, workerData, producerLife,
                   consumerLife, caller, committedFrames, ticksCompleted>>

----------------------------------------------------------------------------

\* mutant: the destructor of a worker does not call stop()
WorkerDestructorStops_Not == FALSE

\* ~usb_audio_producer and ~usb_audio_consumer call stop()
WorkerDestructorStops == TRUE

\* ~usb_audio_producer: stop(), up to the join (ProducerJoin is the join)
ProducerDestroyBegin ==
    /\ caller = "idle" /\ destroyed = "none"
    /\ destroyed' = "dtor_producer"
    /\ IF WorkerDestructorStops /\ p_running
          THEN /\ p_running' = FALSE
               /\ caller' = IF producer_thread # "none" THEN "p_join" ELSE "idle"
          ELSE UNCHANGED <<p_running, caller>>
    /\ UNCHANGED <<ctlVars, orchVars, timeVars, stopHist, otherVars, rbVars, consVars, histVars,
                   frame_size, producer_thread, total_frames_produced, overrun_count, p_pc,
                   p_result, p_bytesAcquired, writeAttempts, p_live>>

\* ~usb_audio_consumer: stop(), up to the join (ConsumerJoin is the join)
ConsumerDestroyBegin ==
    /\ caller = "idle" /\ destroyed = "none"
    /\ destroyed' = "dtor_consumer"
    /\ IF WorkerDestructorStops /\ c_running
          THEN /\ c_running' = FALSE
               /\ caller' = IF consumer_thread # "none" THEN "c_join" ELSE "idle"
          ELSE UNCHANGED <<c_running, caller>>
    /\ UNCHANGED <<ctlVars, orchVars, timeVars, stopHist, otherVars, rbVars, prodVars, histVars,
                   consumer_thread, total_frames_consumed, underrun_count, c_pc, c_result,
                   c_bytesAcquired, microframeCount, c_live>>

\* ~usb_audio_orchestrator: stopStreaming(), up to the first join; the steps
\* of stopStreaming follow
OrchestratorDestroyBegin ==
    /\ caller = "idle" /\ destroyed = "none"
    /\ destroyed' = "dtor_orchestrator"
    /\ IF producer /\ p_running
          THEN p_running' = FALSE /\ caller' = "st_p_join"
          ELSE UNCHANGED p_running /\ caller' = "st_consumer_noop"
    /\ UNCHANGED <<ctlVars, orchVars, timeVars, stopHist, otherVars, rbVars, workerData,
                   consumerLife, producer_thread, p_pc, p_live, p_everStarted, p_restarted,
                   lastCall, committedFrames, ticksCompleted>>

\* the end of a destructor: stop() or stopStreaming() has returned and the
\* members are destroyed.  After stopStreaming the orchestrator's two workers
\* are destroyed with their run flags clear, so their own stop() returns at once.
DestroyEnd ==
    /\ caller = "idle"
    /\ destroyed \in {"dtor_producer", "dtor_consumer", "dtor_orchestrator"}
    /\ destroyed' = (CASE destroyed = "dtor_producer" -> "producer"
                       [] destroyed = "dtor_consumer" -> "consumer"
                       [] OTHER -> "orchestrator")
    /\ UNCHANGED <<ctlVars, orchVars, timeVars, stopHist, otherVars, rbVars, prodVars, consVars,
                   caller, histVars>>

\* The producer thread of a second orchestrator, constructed on a controller
\* of its own. Its producerLoop runs the same code, and `static int
\* writeAttempts` is one object for every usb_audio_producer of the process;
\* writeAttempts++ on a plain int is a load followed by a store, and nothing
\* orders it against the other producer thread.
OtherProducerLoad ==
    /\ o_seen = -1 /\ o_attempts < MaxOtherAttempts
    /\ o_seen' = writeAttempts
    /\ UNCHANGED <<ctlVars, orchVars, timeVars, stopHist, dtorVars, rbVars, prodVars, consVars, caller,
                   histVars, o_attempts>>

OtherProducerStore ==
    /\ o_seen >= 0
    /\ writeAttempts' = o_seen + 1
    /\ o_seen' = -1
    /\ o_attempts' = o_attempts + 1
    /\ UNCHANGED <<ctlVars, orchVars, timeVars, stopHist, dtorVars, rbVars, consVars, caller, histVars,
                   frame_size, p_running, producer_thread, total_frames_produced,
                   overrun_count, p_pc, p_result, p_bytesAcquired, p_live>>

\* the steps of the two worker threads
ProducerStep ==
    \/ ProducerCheck \/ ProducerAcquire \/ ProducerBranch
    \/ ProducerCopy \/ ProducerCommit \/ ProducerCount

ConsumerStep ==
    \/ ConsumerCheck \/ ConsumerAcquire \/ ConsumerBranch
    \/ ConsumerCommit \/ ConsumerCount \/ ConsumerAdvance

\* a producer and a consumer driven directly through start() and stop()
Next ==
    \/ ProducerStart \/ ProducerStop \/ ProducerJoin
    \/ ProducerCheck \/ ProducerAcquire \/ ProducerBranch
    \/ ProducerCopy \/ ProducerCommit \/ ProducerCount
    \/ ConsumerStart \/ ConsumerStop \/ ConsumerJoin
    \/ ConsumerCheck \/ ConsumerAcquire \/ ConsumerBranch
    \/ ConsumerCommit \/ ConsumerCount \/ ConsumerAdvance

Spec == Init /\ [][Next]_vars

\* the same under fair scheduling: a worker thread that can take a step
\* eventually takes one, and a caller blocked in join() returns once the
\* thread it waits for has ended
Fairness ==
    /\ WF_vars(ProducerStep) /\ WF_vars(ConsumerStep)
    /\ WF_vars(ProducerJoin) /\ WF_vars(ConsumerJoin)

SpecFair == Init /\ [][Next]_vars /\ Fairness

\* the same operations on one configuration, with the calls recorded
SpecLife == InitLife /\ [][Next]_vars

\* one orchestrator driven by a single caller thread
NextOrch ==
    \/ StartStreamingBegin \/ StartStreamingEnd
    \/ StopStreamingBegin \/ StopStreamingProducerJoin
    \/ StopStreamingConsumer \/ StopStreamingConsumerJoin
    \/ ProducerStep \/ ConsumerStep

SpecOrch == InitTracked /\ [][NextOrch]_vars

\* the orchestrator with isStreaming() and printStatistics() called at any
\* time; the orchestrator either holds its workers or was
\* constructed on an uninitialized controller
NextObs == NextOrch \/ IsStreamingCall \/ PrintStatistics

SpecObs == (InitLife \/ InitFresh) /\ [][NextObs]_vars

\* the same with the getters of the workers called at any time
NextRead == NextObs \/ GetterCall

SpecRead == InitLife /\ [][NextRead]_vars

\* a fresh controller that is initialized while a producer and a consumer
\* bound to it are started
NextCtl ==
    \/ InitializeCall
    \/ ProducerStart \/ ConsumerStart
    \/ ProducerStep \/ ConsumerStep

SpecCtl == InitFresh /\ [][NextCtl]_vars

\* an orchestrator constructed on a null controller or on one not yet
\* initialized, its calls, and initialize called on the controller afterwards
NextInert ==
    \/ InitializeCall
    \/ StartStreamingBegin
    \/ StopStreamingBegin \/ StopStreamingConsumer
    \/ IsStreamingCall \/ PrintStatistics

SpecInert == (InitFresh \/ InitNull) /\ [][NextInert]_vars

\* a producer and a consumer driven through start() and stop(), bound to a
\* controller that is initialized, or fresh, or missing
SpecMisuse == (Init \/ InitFresh \/ InitNull) /\ [][Next]_vars

\* the orchestrator's calls with the acquire calls after a stop counted
SpecStop == InitStop /\ [][NextOrch]_vars

\* a producer next to the producer thread of a second orchestrator
InitTwo == Constructed({ <<768, 384>> }) /\ Untimed /\ NoStopHist /\ lastCall = "untracked"

NextTwo ==
    \/ ProducerStart \/ ProducerStop \/ ProducerJoin \/ ProducerStep
    \/ OtherProducerLoad \/ OtherProducerStore

SpecTwo == InitTwo /\ [][NextTwo]_vars

\* workers and an orchestrator that are started, stopped and destroyed
NextDtor ==
    \/ Next \/ NextOrch
    \/ ProducerDestroyBegin \/ ConsumerDestroyBegin \/ OrchestratorDestroyBegin
    \/ DestroyEnd

SpecDtor == InitTwo /\ [][NextDtor]_vars

\* the consumer started alone and paced by the clock: the buffer stays empty,
\* so every tick takes the underrun branch
NextTime ==
    \/ ConsumerStart
    \/ ConsumerCheck \/ ConsumerAcquire \/ ConsumerBranch \/ ConsumerAdvance

SpecTime == InitTimed /\ [][NextTime]_vars

----------------------------------------------------------------------------
(* Properties *)

\* byte i of the buffer is committed by the writer and not yet released by
\* commitRead, as the two cursors define it
Unread(i) ==
    IF writeLoopFlag = readLoopFlag
        THEN readOffset <= i /\ i < writeOffset
        ELSE i >= readOffset \/ i < writeOffset

\* the frame a payload token belongs to (0 is padding or untouched memory)
FrameOf(tok) == (tok - 1) \div 1000

CommittedIds == { committedFrames[k][1] : k \in 1..Len(committedFrames) }

\* the producer is between its memcpy and its commitWrite
ProducerHoldsRange == p_pc \in {"copy", "commit"}

\* the consumer holds the range acquireRead granted
ConsumerHoldsRange == c_pc \in {"branch", "commit"}

\* C1: in every reachable state the number of committed-but-unread bytes is
\* between 0 and the capacity, and the range the producer copies into lies
\* inside the buffer and contains no byte that is committed and not yet
\* released by commitRead.
C1_OccupancyAndNoOverwrite ==
    /\ 0 <= ma_rb_pointer_distance
    /\ ma_rb_pointer_distance <= buffer_size_bytes
    /\ ProducerHoldsRange =>
          \A i \in writeOffset..(writeOffset + ProducerCopyBytes - 1) :
              i < buffer_size_bytes /\ ~Unread(i)

\* C1 witness: after a wrap-around the producer is copying a frame while the
\* consumer holds a granted frame and unread data is in the buffer.
C1_Witness ==
    /\ p_pc = "commit" /\ c_pc = "commit"
    /\ writeLoopFlag # readLoopFlag
    /\ ma_rb_pointer_distance > 0

\* C2: every byte of a range granted by acquireRead is committed (commitWrite
\* for it has completed: it lies between the cursors and its content belongs
\* to a frame whose commit is recorded), and it is not inside the range the
\* producer currently holds between acquireWrite and commitWrite.
C2_GrantsFollowCommits ==
    ConsumerHoldsRange =>
        \A i \in readOffset..(readOffset + c_bytesAcquired - 1) :
            /\ i < buffer_size_bytes
            /\ Unread(i)
            /\ mem[i] # 0 => FrameOf(mem[i]) \in CommittedIds
            /\ ProducerHoldsRange => ~InCopyRange(i)

\* C2 witness: the consumer holds a full granted frame of a reused range while
\* the producer holds an acquired, not yet committed range.
C2_Witness ==
    /\ c_pc = "commit" /\ c_bytesAcquired = bytesToConsume
    /\ total_frames_consumed >= 2
    /\ p_pc = "commit" /\ p_bytesAcquired > 0

\* C3: the producer copies and commits only when acquireWrite granted exactly
\* frame_size bytes; with a smaller grant nothing is copied or committed.
C3_CommitOnlyFullGrant ==
    p_pc \in {"copy", "commit", "count"} => p_bytesAcquired = frame_size

\* C4: every write attempt increments exactly one of framesProduced and
\* overrunCount, so between loop iterations their sum is the number of
\* write attempts made.
C4_OneCounterPerAttempt ==
    p_pc \in {"check", "idle"} =>
        total_frames_produced + overrun_count = writeAttempts

\* C5: with the consumer never started, framesProduced never exceeds
\* floor(C/F), and every attempt that did not produce a frame is counted in
\* overrunCount.
C5_ProducerOnlyCaps ==
    ~c_everStarted =>
        /\ total_frames_produced <= buffer_size_bytes \div frame_size
        /\ p_pc \in {"check", "idle"} =>
              overrun_count = writeAttempts - total_frames_produced

\* the counter a tick has already incremented before microframeCount++
TickInProgress == IF c_pc = "advance" THEN 1 ELSE 0

\* C6: with the producer never started (buffer empty), after N completed tick
\* bodies underrunCount is exactly N, framesConsumed is 0 and the read cursor
\* has not moved.
C6_EmptyBufferUnderruns ==
    ~p_everStarted =>
        /\ underrun_count = ticksCompleted + TickInProgress
        /\ total_frames_consumed = 0
        /\ readOffset = 0 /\ readLoopFlag = FALSE

\* C6 witness: three ticks completed against the empty buffer.
C6_Witness ==
    ~p_everStarted /\ ticksCompleted = 3 /\ underrun_count = 3 /\ c_pc = "check"

\* frames whose commitRead has been executed
FramesRead == total_frames_consumed + (IF c_pc = "count" THEN 1 ELSE 0)

\* C7: every tick increments exactly one counter: framesConsumed after a
\* commitRead of a full 384-byte grant, otherwise underrunCount with the read
\* cursor unchanged; framesConsumed + underrunCount is the number of
\* completed tick bodies.
C7_OneCounterPerTick ==
    /\ total_frames_consumed + underrun_count = ticksCompleted + TickInProgress
    /\ c_pc \in {"commit", "count"} => c_bytesAcquired = bytesToConsume
    /\ readOffset = (bytesToConsume * FramesRead) % buffer_size_bytes

\* C7 witness: ticks of both kinds have completed.
C7_Witness ==
    /\ c_pc = "check"
    /\ total_frames_consumed >= 2 /\ underrun_count >= 1

\* C8: the i-th full-frame read granted to the consumer exposes byte for byte
\* the i-th frame the producer committed.
C8_FifoIntact ==
    c_pc = "commit" =>
        LET i == total_frames_consumed + 1 IN
        /\ Len(committedFrames) >= i
        /\ committedFrames[i][2] = c_bytesAcquired
        /\ \A j \in 0..(c_bytesAcquired - 1) :
              mem[readOffset + j] = usbFrameByte(committedFrames[i][1], frame_size, j)

\* C9: the consumer's read request is the orchestrator's microframe size, so
\* every grant it accepts is one whole committed frame.
C9_ReadRequestIsFrameSize ==
    c_pc \in {"commit", "count"} =>
        /\ bytesToConsume = frame_size
        /\ c_bytesAcquired = frame_size

\* first byte of the remainder of a capacity that is no multiple of frame_size
SlackStart == (buffer_size_bytes \div frame_size) * frame_size

\* C10: when the capacity is no multiple of the frame size, the remainder
\* bytes are never written or granted, and the transfer does not stall: it
\* is never the case that neither side can obtain a frame.
C10_SlackUnused ==
    buffer_size_bytes % frame_size # 0 =>
        /\ \A i \in SlackStart..(buffer_size_bytes - 1) : mem[i] = 0
        /\ ConsumerHoldsRange => readOffset + c_bytesAcquired <= SlackStart
        /\ ~(ma_rb_available_write < frame_size /\ ma_rb_available_read < bytesToConsume)

\* the counters and the cursors of the ring buffer
counters == <<total_frames_produced, overrun_count, total_frames_consumed, underrun_count>>
cursors  == <<writeOffset, writeLoopFlag, readOffset, readLoopFlag>>

\* C11: in every execution of startStreaming() on an orchestrator that holds
\* its workers, the consumer's run flag is already set when the producer's
\* becomes set, which happens inside startStreaming, and the producer makes no
\* write attempt before the consumer has been started.
C11_ConsumerStartsFirst ==
    [][ /\ (~p_running /\ p_running') => (c_running /\ caller = "ss_second")
        /\ (writeAttempts' > writeAttempts) => c_everStarted ]_vars

\* C11 witness: startStreaming has returned, both workers run and the producer
\* has made a write attempt.
C11_Witness ==
    /\ lastCall = "startStreaming" /\ caller = "idle"
    /\ p_running /\ c_running
    /\ writeAttempts >= 1

\* C12: stopStreaming() clears the consumer's run flag only after the producer
\* is stopped and joined; when it has returned both workers are stopped, no
\* worker thread is left and isStreaming() is false; a stopStreaming() that
\* finds nothing running changes no run flag, counter or cursor.
C12_StopStreaming ==
    [][ /\ (c_running /\ ~c_running') => (~p_running /\ p_live = 0)
        /\ (caller' = "idle" /\ lastCall' \in {"stopStreaming", "stopStreaming_noop"}) =>
              (~p_running' /\ ~c_running' /\ p_live' = 0 /\ c_live' = 0 /\ ~isStreaming')
        /\ (caller = "st_consumer_noop" \/ caller' = "st_consumer_noop") =>
              UNCHANGED <<p_running, c_running, counters, cursors, mem>> ]_vars

\* C12 witness: after frames were produced and streaming was stopped, a second
\* stopStreaming() has returned.
C12_Witness ==
    /\ lastCall = "stopStreaming_noop" /\ caller = "idle"
    /\ total_frames_produced >= 1 /\ ticksCompleted >= 1

\* a call that changes nothing but the record of the last call
ObservationStep == lastCall' # lastCall /\ UNCHANGED <<ctlVars, orchVars, rbVars, prodVars, consVars, caller>>

\* C13: every isStreaming() call returns true exactly when the producer's or
\* the consumer's run flag is set at that moment (so false when both are
\* stopped), and false when the orchestrator holds no producer and no consumer.
C13_IsStreaming ==
    [][ (ObservationStep /\ lastCall' \in {"isStreaming_true", "isStreaming_false"}) =>
           /\ (producer /\ consumer) =>
                 ((lastCall' = "isStreaming_true") <=> (p_running \/ c_running))
           /\ (~producer /\ ~consumer) => lastCall' = "isStreaming_false" ]_vars

\* C13 witness: isStreaming() returned true while the consumer was running and
\* the producer was not yet started.
C13_Witness ==
    /\ lastCall = "isStreaming_true" /\ caller = "ss_second"
    /\ c_running /\ ~p_running

\* C13 second case: isStreaming() returned false on an orchestrator that was
\* streaming and has been stopped.
C13_WitnessStopped ==
    /\ lastCall = "isStreaming_false" /\ caller = "idle"
    /\ producer /\ total_frames_consumed >= 1

\* C14: start() on a running producer or consumer spawns no second worker
\* thread and leaves exactly one worker active, stop() on a stopped one leaves
\* it stopped with no worker, and neither changes a run flag, a counter or a
\* cursor of the ring buffer.
C14_IdempotentStartStop ==
    [][ /\ (ProducerStart /\ p_running) =>
              (p_live = 1 /\ UNCHANGED <<prodVars, consVars, rbVars>>)
        /\ (ConsumerStart /\ c_running) =>
              (c_live = 1 /\ UNCHANGED <<prodVars, consVars, rbVars>>)
        /\ (ProducerStop /\ ~p_running) =>
              (p_live = 0 /\ UNCHANGED <<prodVars, consVars, rbVars>>)
        /\ (ConsumerStop /\ ~c_running) =>
              (c_live = 0 /\ UNCHANGED <<prodVars, consVars, rbVars>>)
        /\ p_live' <= 1 /\ c_live' <= 1 ]_vars

\* C14 witness: start() was called on a producer that was running and had
\* produced a frame; one worker thread is active.
C14_Witness ==
    /\ lastCall = "p_start_noop" /\ caller = "idle"
    /\ p_running /\ p_live = 1
    /\ total_frames_produced >= 1

\* C14 second case: stop() was called on a consumer that had run and was
\* stopped.
C14_WitnessStop ==
    /\ lastCall = "c_stop_noop" /\ caller = "idle"
    /\ ~c_running /\ c_everStarted

\* C15: a worker's run flag is set only by start() and cleared only by stop();
\* start() on a stopped worker of an initialized controller sets it and spawns
\* a worker thread at the top of its loop, and no thread of the previous cycle
\* is left when the new one is spawned.
C15_RunStateCycle ==
    [][ /\ (~p_running /\ p_running') =>
              (ProducerStart /\ producer_thread = "none" /\ p_live = 0
                 /\ p_live' = 1 /\ p_pc' = "check")
        /\ (p_running /\ ~p_running') => ProducerStop
        /\ (ProducerStart /\ ~p_running /\ initialized) => p_running'
        /\ (~c_running /\ c_running') =>
              (ConsumerStart /\ consumer_thread = "none" /\ c_live = 0
                 /\ c_live' = 1 /\ c_pc' = "check")
        /\ (c_running /\ ~c_running') => ConsumerStop
        /\ (ConsumerStart /\ ~c_running /\ initialized) => c_running' ]_vars

\* C15 witness: both workers were stopped and started again, and the new
\* producer thread and the new consumer thread are inside a loop iteration.
C15_Witness ==
    /\ p_restarted /\ p_running /\ p_pc = "commit"
    /\ c_restarted /\ c_running /\ c_pc = "commit"

\* C16: under any sequence of startStreaming() and stopStreaming() calls of one
\* caller at most one producer thread and at most one consumer thread exist,
\* and the write operations are performed by the producer thread only when it
\* is that one thread, the read operations by the consumer thread likewise.
C16_SingleWriterSingleReader ==
    /\ p_live <= 1 /\ c_live <= 1
    /\ p_pc # "idle" => p_live = 1
    /\ c_pc # "idle" => c_live = 1

\* C16 witness: after a stopStreaming() and a second startStreaming() the one
\* producer thread is committing a write while the one consumer thread is
\* committing a read.
C16_Witness ==
    /\ p_restarted /\ c_restarted /\ lastCall = "startStreaming"
    /\ p_pc = "commit" /\ c_pc = "commit"
    /\ p_live = 1 /\ c_live = 1

BufferEmpty == ma_rb_available_read = 0 /\ writeOffset = 0 /\ readOffset = 0

\* C18: initialize() on an initialized controller returns success and leaves
\* the initialized flag, the reported buffer size, the cursors and the
\* contents of the ring buffer unchanged, whatever capacity is passed.
C18_ReinitializeIsNoop ==
    [][ \A cap \in Capacities, allocOk \in BOOLEAN :
           (initialized /\ Initialize(cap, allocOk)) =>
               (initResult' = "success" /\ UNCHANGED <<initialized, buffer_size_bytes, rbVars>>) ]_vars

\* C18 witness: initialize() was called on an initialized controller whose
\* buffer holds committed data and has a moved read cursor.
C18_Witness ==
    /\ lastCall = "initialize_noop" /\ initialized
    /\ writeOffset > 0 /\ readOffset > 0
    /\ ma_rb_available_read > 0

\* C19 as stated: for every capacity that is a positive multiple of the
\* microframe size, initialize on a fresh controller returns success, after
\* which the controller is initialized, reports that size and is empty.
C19_AsStated ==
    [][ \A cap \in Capacities, allocOk \in BOOLEAN :
           (~initialized /\ initResult = "none" /\ cap > 0 /\ cap % frame_size = 0
              /\ Initialize(cap, allocOk)) =>
               (initResult' = "success" /\ initialized' /\ buffer_size_bytes' = cap
                  /\ BufferEmpty') ]_vars

\* C19 amended: for every capacity that is a positive multiple of the
\* microframe size, initialize on a fresh controller returns success when the
\* ring buffer's own initialization succeeds, after which the controller is
\* initialized, reports that size and is empty; when it fails, initialize
\* returns failure and the controller stays uninitialized.
C19_SucceedsUnlessRingBufferFails ==
    [][ \A cap \in Capacities, allocOk \in BOOLEAN :
           (~initialized /\ initResult = "none" /\ cap > 0 /\ cap % frame_size = 0
              /\ Initialize(cap, allocOk)) =>
               IF allocOk
                  THEN initResult' = "success" /\ initialized' /\ buffer_size_bytes' = cap
                       /\ subbufferSizeInBytes' = cap /\ BufferEmpty'
                  ELSE initResult' = "failure" /\ ~initialized' ]_vars

\* C19 witness: a fresh controller was initialized with 768 bytes, a multiple
\* of the microframe size 256, and nothing else has happened yet.
C19_Witness ==
    /\ lastCall = "initialize" /\ initResult = "success" /\ initialized
    /\ buffer_size_bytes = 768 /\ frame_size = 256
    /\ BufferEmpty /\ ~p_everStarted /\ ~c_everStarted

\* C20: initialize(0), or an initialize whose allocation fails, returns
\* failure and leaves the controller uninitialized with no ring buffer to hand
\* out; while the controller is uninitialized a start() of the producer or of
\* the consumer changes nothing and no worker runs.
C20_FailedInitialize ==
    [][ /\ \A cap \in Capacities, allocOk \in BOOLEAN :
              (~initialized /\ (cap = 0 \/ ~allocOk) /\ Initialize(cap, allocOk)) =>
                  (initResult' = "failure" /\ ~initialized' /\ getRingBuffer' = "nullptr")
        /\ (~initialized /\ ProducerStart) => UNCHANGED <<prodVars, rbVars>>
        /\ (~initialized /\ ConsumerStart) => UNCHANGED <<consVars, rbVars>>
        /\ ~initialized' => (~p_running' /\ ~c_running' /\ p_live' = 0 /\ c_live' = 0) ]_vars

\* C20 witness: after a failed initialize the start of the producer was
\* refused.
C20_Witness ==
    /\ lastCall = "p_start_refused" /\ initResult = "failure"
    /\ ~initialized /\ ~p_running /\ p_live = 0

\* C20 second case: the failed initialize was initialize(0).
C20_WitnessZero ==
    /\ lastCall = "initialize_failed" /\ buffer_size_bytes = 0
    /\ ~initialized

\* the controller the workers were given is missing or not initialized
NoValidController == ~buffer_controller \/ ~initialized

\* C21: start() on a producer or consumer whose controller is missing or
\* uninitialized spawns no worker thread and leaves the run flag clear, with
\* counters and buffer untouched; a stop() after it is a no-op.
C21_StartWithoutController ==
    [][ /\ (NoValidController /\ ProducerStart) =>
              (~p_running' /\ p_live' = 0 /\ producer_thread' = "none"
                 /\ UNCHANGED <<prodVars, consVars, rbVars>>)
        /\ (NoValidController /\ ConsumerStart) =>
              (~c_running' /\ c_live' = 0 /\ consumer_thread' = "none"
                 /\ UNCHANGED <<prodVars, consVars, rbVars>>)
        /\ (NoValidController /\ ProducerStop) =>
              (caller' = "idle" /\ UNCHANGED <<prodVars, consVars, rbVars>>)
        /\ (NoValidController /\ ConsumerStop) =>
              (caller' = "idle" /\ UNCHANGED <<prodVars, consVars, rbVars>>) ]_vars

\* C21 witness: start() was called on a producer constructed with a null
\* controller.
C21_Witness ==
    /\ ~buffer_controller /\ lastCall = "p_start_refused"
    /\ ~p_running /\ p_live = 0 /\ total_frames_produced = 0

\* C21 second case: stop() was called on a consumer whose controller is not
\* initialized.
C21_WitnessStop ==
    /\ buffer_controller /\ ~initialized /\ lastCall = "c_stop_noop"
    /\ ~c_running /\ c_live = 0

\* the step in which the consumer thread sleeps until its target and acquires
ConsumerWakes == Timed /\ c_pc = "acquire" /\ c_pc' = "branch"

\* C22: the target wake time of tick k is exactly t0 + k * 125 microseconds,
\* whatever the earlier ticks took.
C22_TargetIsT0PlusK125 ==
    [][ ConsumerWakes => nextMicroframe' = t0 + microframeCount * microframePeriod ]_vars

\* what the code does instead (C22): the target of tick k is t0 + (k + 1) * 125
\* microseconds, so consecutive targets differ by exactly 125 microseconds and
\* no lateness is carried over.
C22_TargetIsOnePeriodLater ==
    [][ ConsumerWakes => nextMicroframe' = t0 + (microframeCount + 1) * microframePeriod ]_vars

\* a tick that woke later than a full period after its target has completed,
\* and later ticks were run
C22_LateTickSeen ==
    /\ Timed /\ microframeCount >= 2 /\ c_pc = "branch"
    /\ t_now - nextMicroframe > microframePeriod

\* C23: on every tick whose index is a multiple of 1000 the timing error
\* logged is |(now - t0) - index * 125 microseconds|.
C23_TimingErrorFromT0 ==
    [][ (ConsumerWakes /\ microframeCount % logEvery = 0) =>
           timingError' = Abs((t_now' - t0) - microframeCount * microframePeriod) ]_vars

\* the tick with index 1000 has logged its timing error
C23_SecondLogSeen ==
    /\ Timed /\ microframeCount = logEvery /\ c_pc = "branch" /\ timingError >= 0

\* a step of printStatistics
PrintStatisticsStep ==
    /\ ObservationStep
    /\ lastCall' \in {"printStatistics", "printStatistics_u", "printStatistics_o",
                      "printStatistics_uo"}

\* C24: printStatistics computes the underrun rate only when framesProduced >
\* 0 and the overrun rate only when framesConsumed > 0, so no division has a
\* zero divisor, whatever the counters hold.
C24_NoDivisionByZero ==
    [][ PrintStatisticsStep =>
           /\ lastCall' \in {"printStatistics_u", "printStatistics_uo"} =>
                 total_frames_produced > 0
           /\ lastCall' \in {"printStatistics_o", "printStatistics_uo"} =>
                 total_frames_consumed > 0 ]_vars

\* C24 witness: printStatistics was called with frames produced and none
\* consumed, and logged the underrun rate only.
C24_Witness ==
    /\ lastCall = "printStatistics_u"
    /\ total_frames_produced > 0 /\ total_frames_consumed = 0

\* C24 second case: printStatistics was called on an orchestrator with both
\* workers and both divisors 0, after an underrun.
C24_WitnessBothZero ==
    /\ lastCall = "printStatistics" /\ producer /\ consumer
    /\ total_frames_produced = 0 /\ total_frames_consumed = 0 /\ underrun_count > 0

\* a step of a getter, of isStreaming or of printStatistics
ReadOnlyCall ==
    /\ lastCall' # lastCall
    /\ lastCall' \in {"getter", "isStreaming_true", "isStreaming_false", "printStatistics",
                      "printStatistics_u", "printStatistics_o", "printStatistics_uo"}

\* C27: the getters, isRunning(), isStreaming() and printStatistics(), called
\* at any point of any interleaving, leave every counter, run flag and buffer
\* cursor unchanged (and everything else of the workers and the buffer).
C27_ReadsChangeNothing ==
    [][ ReadOnlyCall => UNCHANGED <<counters, p_running, c_running, cursors, rbVars,
                                    prodVars, consVars, ctlVars, caller>> ]_vars

\* C27 witness: a getter was called while startStreaming was
\* between its two start() calls and the consumer thread was inside a tick.
C27_Witness ==
    /\ lastCall = "getter" /\ caller = "ss_second"
    /\ c_running /\ c_pc = "branch"

\* C27 second case: printStatistics was called while stopStreaming was waiting
\* for the producer thread, which was about to commit.
C27_WitnessPrint ==
    /\ lastCall \in {"printStatistics_u", "printStatistics_uo"} /\ caller = "st_p_join"
    /\ p_pc = "commit"

\* stop() of the producer has returned: flag clear, thread ended and joined
ProducerStopReturned ==
    caller = "idle" /\ ~p_running /\ producer_thread = "none" /\ p_pc = "idle"

\* stop() of the consumer has returned: flag clear, thread ended and joined
ConsumerStopReturned ==
    caller = "idle" /\ ~c_running /\ consumer_thread = "none" /\ c_pc = "idle"

\* C25: under fair scheduling of the worker threads, a stop() call on a running
\* producer or consumer eventually returns with the worker thread exited and
\* joined, whatever the state of the buffer and of the other worker.
C25_StopReturns ==
    /\ (caller = "p_join") ~> ProducerStopReturned
    /\ (caller = "c_join") ~> ConsumerStopReturned

\* C25 witness: stop() of the producer is waiting in join() while the producer
\* thread is inside an attempt on a full buffer and the consumer is stopped.
C25_Witness ==
    /\ caller = "p_join" /\ p_pc = "branch" /\ p_bytesAcquired = 0
    /\ ma_rb_available_write = 0 /\ ~c_running /\ c_pc = "idle"

\* C25 second case: stop() of the consumer is waiting in join() while the
\* consumer thread is before the wake-up of its next tick on an empty buffer.
C25_WitnessAsleep ==
    /\ caller = "c_join" /\ c_pc = "acquire" /\ ma_rb_available_read = 0

\* C26: after stop() has cleared the run flag, the producer makes at most one
\* further acquireWrite (with its commit, if any) and the consumer executes at
\* most one further tick body (one wake-up and one acquireRead, with its
\* commit, if any) before the loop exits.
C26_AtMostOneMoreOperation ==
    /\ p_opsAfterStop <= 1 /\ c_ticksAfterStop <= 1
    /\ (~p_running /\ p_opsAfterStop = 1 /\ p_pc = "check") => producer_thread = "running"
    /\ (~p_running /\ p_opsAfterStop = 1) => p_pc # "acquire"
    /\ (~c_running /\ c_ticksAfterStop = 1) => c_pc # "acquire"

\* C26 witness: the producer thread has ended after one acquireWrite made
\* after stop() cleared the flag, and that attempt was committed.
C26_Witness ==
    /\ p_opsAfterStop = 1 /\ ~p_running /\ producer_thread = "exited"
    /\ total_frames_produced > 0

\* C26 second case: the consumer thread has ended after one tick body run
\* after stop() cleared the flag.
C26_WitnessConsumer ==
    c_ticksAfterStop = 1 /\ ~c_running /\ consumer_thread = "exited"

\* a step of the producer thread of the second orchestrator
OtherProducerStep == o_seen' # o_seen \/ o_attempts' # o_attempts

\* C28 as stated: two orchestrators on controllers of their own share no
\* mutable state, so a step of the second orchestrator's producer thread reads
\* and writes nothing that the first orchestrator's threads write.
C28_InstancesShareNothing ==
    [][ OtherProducerStep => UNCHANGED <<rbVars, prodVars, consVars, ctlVars>> ]_vars

\* C28: an increment of writeAttempts by the first producer thread is lost, the
\* second producer thread having stored over it.
C28_LostUpdate ==
    /\ o_attempts > 0 /\ o_seen = -1
    /\ writeAttempts < o_attempts + total_frames_produced + overrun_count

\* the capacity is a multiple of the frame size and the consumer's request is
\* the frame size
FrameAligned == subbufferSizeInBytes % frame_size = 0 /\ bytesToConsume = frame_size

\* C29: when the capacity is a multiple of the frame size F and both sides
\* transfer F bytes at a time, the read and the write cursor are multiples of F
\* in every reachable state, and every acquireWrite and acquireRead grant is 0
\* or exactly F bytes.
C29_CursorsFrameAligned ==
    FrameAligned =>
        /\ writeOffset % frame_size = 0 /\ readOffset % frame_size = 0
        /\ p_pc \in {"branch", "copy", "commit"} => p_bytesAcquired \in {0, frame_size}
        /\ c_pc \in {"branch", "commit"} => c_bytesAcquired \in {0, frame_size}

\* C29 witness: in an aligned configuration the write cursor has wrapped to 0
\* past the end of the buffer, the read cursor is one frame in, and the
\* producer holds a grant of a whole frame.
C29_Witness ==
    /\ FrameAligned /\ writeLoopFlag # readLoopFlag /\ writeOffset = 0
    /\ readOffset = frame_size /\ p_pc = "copy" /\ p_bytesAcquired = frame_size

\* C29 second case: the producer is refused (grant 0) on a full buffer, after
\* the consumer was refused on an empty one.
C29_WitnessRefused ==
    /\ FrameAligned /\ p_pc = "branch" /\ p_bytesAcquired = 0
    /\ ma_rb_available_write = 0 /\ underrun_count > 0

\* the capacity is a multiple of the frame size
CapacityMultiple == subbufferSizeInBytes % frame_size = 0

\* the acquire step of a consumer tick, and of a producer attempt
ConsumerAcquireStep == c_pc = "acquire" /\ c_pc' = "branch"
ProducerAcquireStep == p_pc = "acquire" /\ p_pc' = "branch"

\* C30 as stated: on a buffer whose capacity is a multiple of the frame size, a
\* consumer tick that finds at least one committed frame consumes one, and a
\* producer attempt that finds at least one frame of free space commits one.
C30_NeverStalls ==
    [][ /\ (ConsumerAcquireStep /\ CapacityMultiple /\ ma_rb_pointer_distance >= frame_size)
            => ConsumerAccepts'
        /\ (ProducerAcquireStep /\ CapacityMultiple
               /\ subbufferSizeInBytes - ma_rb_pointer_distance >= frame_size)
            => (ProducerAccepts' /\ p_bytesAcquired' = frame_size) ]_vars

\* C30, what the code does: the same holds when the frame size is also the
\* consumer's request of 384 bytes.
C30_NeverStallsAligned ==
    [][ /\ (ConsumerAcquireStep /\ FrameAligned /\ ma_rb_pointer_distance >= frame_size)
            => ConsumerAccepts'
        /\ (ProducerAcquireStep /\ FrameAligned
               /\ subbufferSizeInBytes - ma_rb_pointer_distance >= frame_size)
            => (ProducerAccepts' /\ p_bytesAcquired' = frame_size) ]_vars

\* C30: a consumer tick has ended in an underrun although a whole frame of 256
\* bytes was committed and unread throughout.
C30_FrameLeftUnread ==
    /\ CapacityMultiple /\ frame_size = 256
    /\ c_pc = "advance" /\ underrun_count > 0 /\ c_bytesAcquired = 256
    /\ ma_rb_pointer_distance >= frame_size

\* both sides transfer frames of 384 bytes
SameFrameSize == frame_size = bytesToConsume

\* C31 as stated: with frame size 384 on both sides, framesConsumed <=
\* framesProduced in every reachable state of every interleaving.
C31_ConsumedNeverAhead ==
    SameFrameSize => total_frames_consumed <= total_frames_produced

\* frames the producer has committed and not yet counted: one while it is
\* between ma_rb_commit_write and total_frames_produced.fetch_add(1)
CommittedUncounted == IF p_pc = "count" THEN 1 ELSE 0

\* C31, amended: with frame size 384 on both sides, framesConsumed never
\* exceeds framesProduced by more than the one frame the producer has
\* committed and not yet counted; it is at most framesProduced whenever the
\* producer is not between its commit and its counter increment.
C31_ConsumedAheadByUncounted ==
    SameFrameSize => total_frames_consumed <= total_frames_produced + CommittedUncounted

\* C31 witness: the consumer has read and counted the frame the producer has
\* committed and not yet counted.
C31_Witness ==
    /\ SameFrameSize /\ p_pc = "count"
    /\ total_frames_consumed = total_frames_produced + 1

\* stopStreaming has returned and both workers are stopped, their threads ended
BothStopped ==
    /\ caller = "idle" /\ lastCall \in {"stopStreaming", "stopStreaming_noop"}
    /\ ~p_running /\ ~c_running /\ p_pc = "idle" /\ c_pc = "idle"

\* whole frames held in the buffer
WholeFramesHeld == ma_rb_pointer_distance \div frame_size

\* C32 as stated: whenever both workers are stopped after stopStreaming has
\* returned, framesProduced - framesConsumed is the number of whole frames held
\* in the buffer, and lies between 0 and floor(capacity / frameSize).
C32_DifferenceIsFramesHeld ==
    BothStopped =>
        /\ total_frames_produced - total_frames_consumed = WholeFramesHeld
        /\ total_frames_produced - total_frames_consumed >= 0
        /\ total_frames_produced - total_frames_consumed <= buffer_size_bytes \div frame_size

\* C32, what the code does: the same holds when the capacity is a multiple of
\* the frame size and the frame size is the consumer's 384 bytes.
C32_DifferenceIsFramesHeldAligned ==
    (BothStopped /\ FrameAligned) =>
        /\ total_frames_produced - total_frames_consumed = WholeFramesHeld
        /\ total_frames_produced - total_frames_consumed >= 0
        /\ total_frames_produced - total_frames_consumed <= buffer_size_bytes \div frame_size

\* C32: both workers are stopped with two frames counted as produced and none
\* consumed, in a buffer of 500 bytes that holds one whole frame of 384.
C32_PartialFrameCounted ==
    /\ BothStopped /\ buffer_size_bytes = 500 /\ frame_size = 384
    /\ total_frames_produced = 2 /\ total_frames_consumed = 0 /\ WholeFramesHeld = 1

\* C32: in an aligned configuration both workers are stopped with one frame
\* left in the buffer after others were consumed.
C32_AlignedFrameHeld ==
    /\ BothStopped /\ FrameAligned /\ total_frames_consumed > 0 /\ WholeFramesHeld = 1

\* stop() of the worker has returned and no start() has succeeded since
ProducerStopped == p_everStarted /\ ~p_running /\ producer_thread = "none"
ConsumerStopped == c_everStarted /\ ~c_running /\ consumer_thread = "none"

\* C33: once stop() of a worker has returned, its counters and its buffer
\* cursor (the write cursor for the producer, the read cursor for the
\* consumer) do not change until the next successful start().
C33_StoppedWorkerIsFrozen ==
    [][ /\ (ProducerStopped /\ ~p_running') =>
               UNCHANGED <<total_frames_produced, overrun_count, writeOffset, writeLoopFlag>>
        /\ (ConsumerStopped /\ ~c_running') =>
               UNCHANGED <<total_frames_consumed, underrun_count, readOffset, readLoopFlag>>
      ]_vars

\* C33 witness: the producer was stopped after committing frames, and the
\* consumer, still running after consuming one, is inside another tick.
C33_Witness ==
    /\ ProducerStopped /\ total_frames_produced > 0
    /\ c_running /\ c_pc = "branch" /\ total_frames_consumed > 0

\* C33 second case: the consumer was stopped after an underrun and the
\* producer, still running, is about to commit.
C33_WitnessConsumer ==
    /\ ConsumerStopped /\ underrun_count > 0 /\ p_running /\ p_pc = "commit"

\* C34: for an orchestrator driven by one caller thread through startStreaming
\* and stopStreaming, the producer's run flag is true only while the consumer's
\* run flag is true, in every reachable state.
C34_ProducerRunsOnlyWithConsumer ==
    (producer /\ p_running) => (consumer /\ c_running)

\* C34 witness: a second startStreaming is between its two start() calls, the
\* consumer running again and the producer not yet.
C34_Witness ==
    caller = "ss_second" /\ c_running /\ ~p_running /\ c_restarted

\* C34 second case: stopStreaming has stopped and joined the producer and has
\* not yet stopped the consumer.
C34_WitnessStop ==
    /\ caller = "st_consumer" /\ ~p_running /\ producer_thread = "none"
    /\ c_running /\ total_frames_produced > 0

\* C34 third case: both run flags are set and both threads are inside their loops.
C34_WitnessBoth ==
    p_running /\ c_running /\ p_pc = "commit" /\ c_pc = "branch"

\* C35: an orchestrator constructed with a null or not yet initialized
\* controller holds no producer and no consumer and stays inert for its whole
\* lifetime: startStreaming starts nothing and isStreaming stays false, also
\* after the controller was successfully initialized.
C35_InertOrchestrator ==
    /\ ~producer /\ ~consumer /\ ~isStreaming
    /\ ~p_running /\ ~c_running
    /\ producer_thread = "none" /\ consumer_thread = "none"
    /\ lastCall \notin {"isStreaming_true", "startStreaming"}

\* C35 witness: the controller was successfully initialized after the
\* orchestrator was constructed, and startStreaming was then called and
\* returned without starting anything.
C35_Witness ==
    initialized /\ initResult = "success" /\ lastCall = "startStreaming_refused"

\* C35 second case: isStreaming was called on an orchestrator with a null
\* controller and returned false.
C35_WitnessNull ==
    ~buffer_controller /\ lastCall = "isStreaming_false"

\* C36 as stated: a failed initialize leaves the observable state of the
\* controller as it was: isInitialized() stays false and getBufferSize()
\* returns its previous value.
C36_FailedInitializeChangesNothing ==
    [][ \A cap \in Capacities, allocOk \in BOOLEAN :
            (~initialized /\ ~ma_rb_init_ok(cap, allocOk) /\ Initialize(cap, allocOk)) =>
                (~initialized' /\ buffer_size_bytes' = buffer_size_bytes) ]_vars

\* C36: after a failed initialize on a fresh controller, getBufferSize()
\* returns the capacity that was asked for.
C36_SizeOfFailedInitialize ==
    /\ ~initialized /\ initResult = "failure" /\ lastCall = "initialize_failed"
    /\ buffer_size_bytes > 0

\* C36: what holds of a failed initialize: the controller stays uninitialized
\* and hands out no ring buffer.
C36_FailedInitializeStaysUninitialized ==
    [][ \A cap \in Capacities, allocOk \in BOOLEAN :
            (~initialized /\ ~ma_rb_init_ok(cap, allocOk) /\ Initialize(cap, allocOk)) =>
                (~initialized' /\ getRingBuffer' = "nullptr") ]_vars

\* C36: an initialize with a valid capacity has succeeded (reached also after
\* failed ones, which leave the controller uninitialized).
C36_SucceedsAfterFailure ==
    initialized /\ initResult = "success" /\ lastCall = "initialize" /\ buffer_size_bytes = 768

\* the destructor of the producer, or of the orchestrator that owns it, has
\* completed; the same for the consumer
ProducerGone == destroyed \in {"producer", "orchestrator"}
ConsumerGone == destroyed \in {"consumer", "orchestrator"}

\* C37: the destructor of an orchestrator, producer or consumer whose worker
\* is running clears the run flag and joins the worker thread, so when it has
\* completed the thread has ended and no buffer operation or counter update of
\* that worker follows.
C37_NoWorkAfterDestructor ==
    [][ /\ ProducerGone' => (~p_running' /\ producer_thread' = "none" /\ p_pc' = "idle")
        /\ ConsumerGone' => (~c_running' /\ consumer_thread' = "none" /\ c_pc' = "idle")
        /\ ProducerGone => UNCHANGED <<total_frames_produced, overrun_count, writeOffset,
                                       writeLoopFlag, p_pc>>
        /\ ConsumerGone => UNCHANGED <<total_frames_consumed, underrun_count, readOffset,
                                       readLoopFlag, c_pc>> ]_vars

\* C37 witness: the destructor of the producer has cleared the run flag and
\* waits in join() while the producer thread is about to commit a frame.
C37_Witness ==
    destroyed = "dtor_producer" /\ caller = "p_join" /\ ~p_running /\ p_pc = "commit"

\* C37 second case: the destructor of the orchestrator waits for the consumer
\* thread, which is inside a tick, the producer thread having been joined.
C37_WitnessOrchestrator ==
    /\ destroyed = "dtor_orchestrator" /\ caller = "st_c_join" /\ c_pc = "branch"
    /\ producer_thread = "none"

\* C37 third case: the consumer was destroyed after consuming frames, and the
\* producer goes on.
C37_WitnessConsumerGone ==
    destroyed = "consumer" /\ total_frames_consumed > 0 /\ p_running /\ p_pc = "copy"

====
